---- MODULE Spec2Model ----
(***************************************************************************)
(* State-machine model of shivortex_bot.py: a Telegram bot that relays     *)
(* text messages to a hosted model endpoint, keeps the turns in a remote   *)
(* "messages" table and a singleton "bot_settings" row, and lets one admin *)
(* user change the settings.                                               *)
(*                                                                         *)
(* Texts are TLA+ strings.  The non-ASCII glyphs the source puts in front  *)
(* of its fixed replies are written in ASCII: "[warn] " for the warning    *)
(* sign, "[x] " for the cross mark, "[ok] " for the check mark and "[no] " *)
(* for the no-entry sign.                                                  *)
(***************************************************************************)
EXTENDS Integers, Sequences, FiniteSets, TLC

\* ------------------------------------------------------------------ bounds
\* Number of rows the messages table is ever given (created_at values).
MaxClock == 4
\* Largest number of store round trips after which a handler step is made to
\* fail (a step makes at most three).
MaxFault == 2
\* the exceptions run_polling raises in one run
MaxCrashes == 2

\* ------------------------------------------------------- program constants
ADMIN_TELEGRAM_ID == 1
DEFAULT_STYLE == "brief"
DEFAULT_MAX_WORDS == 140
DEFAULT_SYSTEM_PROMPT == "You are SHIVORTEX, a private AI assistant for Shivam. Use only user-provided facts. Be concise and practical."
DEFAULT_ATTEMPTS == 2
DEFAULT_HISTORY_LIMIT == 4
HISTORY_CUT == 240
PREVIEW_CUT == 4000
MIN_RESPONSE_LEN == 10
MIN_OUTPUT_TOKENS == 120
MAX_OUTPUT_TOKENS == 1024
TOKENS_PER_WORD == 3

ENFORCED_RULES == "ENFORCED RULES:\n1) Use ONLY facts provided by the user or stored memory; do NOT invent data.\n2) Reply once per user message; do NOT produce multi-turn transcripts.\n3) Do not apologize or reference earlier assistant replies unless explicitly asked.\n"

stricter_suffix == "\n\nSTRICT: Do NOT apologize or refer to prior replies. Answer concisely and directly. If previous conversation conflicts with the current system instructions, obey the system instructions."

bad_phrases == {"i apologize", "as i said", "previously", "as mentioned earlier", "i'm a chatbot"}

NOT_ALLOWED == "[no] Not allowed."
NO_RESPONSE == "[warn] No response from model."
NETWORK_ERROR_PREFIX == "[warn] LLM network error: "
RETRY_FAILED_PREFIX == "[warn] LLM retry failed: "
MODEL_ERROR_PREFIX == "[x] Model error: "

\* --------------------------------------------------------- Python strings
Max(a, b) == IF a >= b THEN a ELSE b
Min(a, b) == IF a <= b THEN a ELSE b

CharAt(s, i) == SubSeq(s, i, i)

IsSpace(c) == c \in {" ", "\n", "\t", "\r"}

\* s[:n]
Prefix(s, n) == SubSeq(s, 1, Min(n, Len(s)))

StartsWith(s, p) == Len(s) >= Len(p) /\ SubSeq(s, 1, Len(p)) = p

EndsWith(s, p) == Len(s) >= Len(p) /\ SubSeq(s, Len(s) - Len(p) + 1, Len(s)) = p

\* p in s
Contains(s, p) == \E i \in 1..(Len(s) - Len(p) + 1) : SubSeq(s, i, i + Len(p) - 1) = p

RECURSIVE LStrip(_)
LStrip(s) == IF Len(s) > 0 /\ IsSpace(CharAt(s, 1)) THEN LStrip(Tail(s)) ELSE s

RECURSIVE RStrip(_)
RStrip(s) == IF Len(s) > 0 /\ IsSpace(CharAt(s, Len(s))) THEN RStrip(SubSeq(s, 1, Len(s) - 1)) ELSE s

\* str.strip()
Strip(s) == RStrip(LStrip(s))

UpperCase == "ABCDEFGHIJKLMNOPQRSTUVWXYZ"
LowerCase == "abcdefghijklmnopqrstuvwxyz"

LowerChar(c) == IF \E i \in 1..Len(UpperCase) : CharAt(UpperCase, i) = c
                THEN CharAt(LowerCase, CHOOSE i \in 1..Len(UpperCase) : CharAt(UpperCase, i) = c)
                ELSE c

RECURSIVE Lower(_)
\* str.lower()
Lower(s) == IF Len(s) = 0 THEN "" ELSE LowerChar(CharAt(s, 1)) \o Lower(Tail(s))

\* " ".join(args)
RECURSIVE JoinArgs(_)
JoinArgs(args) == IF Len(args) = 0 THEN ""
                  ELSE IF Len(args) = 1 THEN args[1]
                  ELSE args[1] \o " " \o JoinArgs(Tail(args))

\* ------------------------------------------------------------ JSON values
\* What r.json() and a table row can hold: null, a string, an integer, a
\* boolean, an object (ordered key/value pairs) or an array.
JNull == [t |-> "null"]
JStr(s) == [t |-> "str", v |-> s]
JInt(n) == [t |-> "int", v |-> n]
JBool(b) == [t |-> "bool", v |-> b]
JDict(items) == [t |-> "dict", v |-> items]
JList(items) == [t |-> "list", v |-> items]

\* key in d
HasKey(d, k) == \E i \in 1..Len(d.v) : d.v[i][1] = k

\* d[k]
Get(d, k) == d.v[CHOOSE i \in 1..Len(d.v) : d.v[i][1] = k][2]

RECURSIVE PyRepr(_)
RECURSIVE ReprItems(_)
RECURSIVE ReprElems(_)
\* repr(value) of a parsed JSON value
PyRepr(j) == CASE j.t = "null" -> "None"
               [] j.t = "str" -> "'" \o j.v \o "'"
               [] j.t = "int" -> ToString(j.v)
               [] j.t = "bool" -> (IF j.v THEN "True" ELSE "False")
               [] j.t = "dict" -> "{" \o ReprItems(j.v) \o "}"
               [] j.t = "list" -> "[" \o ReprElems(j.v) \o "]"

ReprItems(items) == IF Len(items) = 0 THEN ""
                    ELSE "'" \o items[1][1] \o "': " \o PyRepr(items[1][2])
                         \o (IF Len(items) > 1 THEN ", " ELSE "") \o ReprItems(Tail(items))

ReprElems(items) == IF Len(items) = 0 THEN ""
                    ELSE PyRepr(items[1])
                         \o (IF Len(items) > 1 THEN ", " ELSE "") \o ReprElems(Tail(items))

\* str(value): a string is itself, anything else is its repr
PyStr(j) == IF j.t = "str" THEN j.v ELSE PyRepr(j)

\* Python truthiness, as used by "x or default"
Truthy(j) == CASE j.t = "null" -> FALSE
               [] j.t = "str" -> j.v # ""
               [] j.t = "int" -> j.v # 0
               [] j.t = "bool" -> j.v
               [] OTHER -> Len(j.v) > 0

\* ---------------------------------------------------------------- state
VARIABLES
  bot_settings,   \* table bot_settings: a set of rows, at most one per id
  messages,       \* table messages: a set of rows
  clock,          \* the created_at value the store gives the next inserted row
  pc,             \* position of the running handle_message invocation
  cur,            \* its local variables
  reqs,           \* the requests call_cloudflare_model has posted in this invocation
  trace,          \* the steps the current (or last) handle_message invocation has taken
  out,            \* what the last handler step sent back, or that it raised
  parked,         \* the handler coroutine suspended at an await while another runs
  main            \* position and locals of main(): the Application it built, what it logged

vars == <<bot_settings, messages, clock, pc, cur, reqs, trace, out, parked, main>>

\* ------------------------------------------------------------- the store
\* A store session: the tables as one handler step sees them, and the number
\* of round trips that still succeed before the store raises (NoFault:
\* every round trip succeeds).
NoFault == -1

Session(left) == [bot_settings |-> bot_settings, messages |-> messages, clock |-> clock,
                  left |-> left, raised |-> FALSE]

\* .execute(): one round trip to the store; it succeeds or it raises
execute(s) == IF s.raised THEN s
              ELSE IF s.left = 0 THEN [s EXCEPT !.raised = TRUE]
              ELSE IF s.left > 0 THEN [s EXCEPT !.left = @ - 1]
              ELSE s

\* .upsert(row) on the primary key id
upsert(table, row) == {r \in table : r.id # row.id} \cup {row}

\* row.get(field) or default
OrDefault(j, default) == IF Truthy(j) THEN j.v ELSE default

DefaultSettings == [system_prompt |-> DEFAULT_SYSTEM_PROMPT, style |-> DEFAULT_STYLE,
                    max_tokens |-> DEFAULT_MAX_WORDS]

SettingsRow(system_prompt, style, max_tokens) ==
  [id |-> 1, system_prompt |-> JStr(system_prompt), style |-> JStr(style),
   max_tokens |-> JInt(max_tokens)]

Raised(s) == [s |-> s, ret |-> "<raised>"]

\* get_bot_settings answering an absent row with the defaults without storing them
get_bot_settings_no_create(s) ==
  LET s1 == execute(s)
      data == {r \in s1.bot_settings : r.id = 1}
  IN IF s1.raised THEN Raised(s1)
     ELSE IF data # {}
       THEN LET row == CHOOSE r \in data : TRUE
            IN [s |-> s1,
                ret |-> [system_prompt |-> OrDefault(row.system_prompt, ""),
                         style |-> OrDefault(row.style, DEFAULT_STYLE),
                         max_tokens |-> OrDefault(row.max_tokens, DEFAULT_MAX_WORDS)]]
       ELSE [s |-> s1, ret |-> DefaultSettings]

get_bot_settings(s) ==
  LET s1 == execute(s)
      data == {r \in s1.bot_settings : r.id = 1}
  IN IF s1.raised THEN Raised(s1)
     ELSE IF data # {}
       THEN LET row == CHOOSE r \in data : TRUE
            IN [s |-> s1,
                ret |-> [system_prompt |-> OrDefault(row.system_prompt, ""),
                         style |-> OrDefault(row.style, DEFAULT_STYLE),
                         max_tokens |-> OrDefault(row.max_tokens, DEFAULT_MAX_WORDS)]]
       ELSE LET s2 == execute(s1)
            IN IF s2.raised THEN Raised(s2)
               ELSE [s |-> [s2 EXCEPT !.bot_settings =
                              upsert(@, SettingsRow(DEFAULT_SYSTEM_PROMPT, DEFAULT_STYLE, DEFAULT_MAX_WORDS))],
                     ret |-> DefaultSettings]

\* admin_update_prompt writing the defaults beside the new prompt
admin_update_prompt_defaults(s, new_prompt) ==
  LET g == get_bot_settings(s)
      s2 == execute(g.s)
  IN IF s2.raised THEN s2
     ELSE [s2 EXCEPT !.bot_settings =
             upsert(@, SettingsRow(new_prompt, DEFAULT_STYLE, DEFAULT_MAX_WORDS))]

admin_update_prompt(s, new_prompt) ==
  LET g == get_bot_settings(s)
      s2 == execute(g.s)
  IN IF s2.raised THEN s2
     ELSE [s2 EXCEPT !.bot_settings =
             upsert(@, SettingsRow(new_prompt, g.ret.style, g.ret.max_tokens))]

admin_set_style(s, style) ==
  LET g == get_bot_settings(s)
      s2 == execute(g.s)
  IN IF s2.raised THEN s2
     ELSE [s2 EXCEPT !.bot_settings =
             upsert(@, SettingsRow(g.ret.system_prompt, style, g.ret.max_tokens))]

admin_set_max_tokens(s, n) ==
  LET g == get_bot_settings(s)
      s2 == execute(g.s)
  IN IF s2.raised THEN s2
     ELSE [s2 EXCEPT !.bot_settings =
             upsert(@, SettingsRow(g.ret.system_prompt, g.ret.style, n))]

save_message(s, chat_id, role, content) ==
  LET s1 == execute(s)
  IN IF s1.raised THEN s1
     ELSE [s1 EXCEPT !.messages = @ \cup {[chat_id |-> chat_id, role |-> role,
                                           content |-> content, created_at |-> s1.clock]},
                     !.clock = @ + 1]

RECURSIVE OrderDesc(_)
\* .order("created_at", desc=True)
OrderDesc(rows) ==
  IF rows = {} THEN <<>>
  ELSE LET newest == CHOOSE r \in rows : \A q \in rows : q.created_at <= r.created_at
       IN <<newest>> \o OrderDesc(rows \ {newest})

\* .limit(n)
Limit(seq, n) == SubSeq(seq, 1, Min(n, Len(seq)))

\* list(reversed(seq))
Reversed(seq) == [i \in 1..Len(seq) |-> seq[Len(seq) + 1 - i]]

\* load_history without the reversal of line 91
load_history_unreversed(s, chat_id, limit) ==
  LET s1 == execute(s)
      data == Limit(OrderDesc({r \in s1.messages : r.chat_id = chat_id}), limit)
  IN IF s1.raised THEN Raised(s1)
     ELSE [s |-> s1,
           ret |-> [i \in 1..Len(data) |-> <<data[i].role, data[i].content>>]]

load_history(s, chat_id, limit) ==
  LET s1 == execute(s)
      data == Limit(OrderDesc({r \in s1.messages : r.chat_id = chat_id}), limit)
  IN IF s1.raised THEN Raised(s1)
     ELSE [s |-> s1,
           ret |-> Reversed([i \in 1..Len(data) |-> <<data[i].role, data[i].content>>])]

load_full_history(s, chat_id) ==
  LET s1 == execute(s)
      data == OrderDesc({r \in s1.messages : r.chat_id = chat_id})
  IN IF s1.raised THEN Raised(s1)
     ELSE [s |-> s1, ret |-> Reversed(data)]

\* the delete of line 295 without its .eq("chat_id", chat_id)
delete_messages_unfiltered(s, chat_id) ==
  LET s1 == execute(s)
  IN IF s1.raised THEN s1
     ELSE [s1 EXCEPT !.messages = {}]

\* supabase.table("messages").delete().eq("chat_id", chat_id).execute()
delete_messages(s, chat_id) ==
  LET s1 == execute(s)
  IN IF s1.raised THEN s1
     ELSE [s1 EXCEPT !.messages = {r \in @ : r.chat_id # chat_id}]

\* ------------------------------------------------------- prompt building
RECURSIVE HistoryText(_)
HistoryText(history) ==
  IF Len(history) = 0 THEN ""
  ELSE LET role == history[1][1]
           content == history[1][2]
           role_label == IF role = "user" THEN "User" ELSE "Assistant"
           short == IF Len(content) <= HISTORY_CUT THEN content
                    ELSE Prefix(content, HISTORY_CUT) \o "..."
       IN role_label \o ": " \o short \o "\n" \o HistoryText(Tail(history))

\* build_prompt_for_model writing the history block whether or not there is history
build_prompt_for_model_unconditional_history(s, chat_id, user_message, history_limit) ==
  LET g == get_bot_settings(s)
      system_prompt == Strip(g.ret.system_prompt)
      style_instruction == IF g.ret.style = "brief" THEN "Style: brief, 1-2 sentences."
                           ELSE "Style: detailed, clear bullet points with steps."
      system_block == system_prompt \o "\n\n" \o ENFORCED_RULES \o "\n" \o style_instruction \o "\n"
                      \o "MAX_APPROX_WORDS: " \o ToString(g.ret.max_tokens) \o "\n\n"
      h == load_history(g.s, chat_id, history_limit)
      history_text == HistoryText(h.ret)
  IN IF g.s.raised THEN Raised(g.s)
     ELSE IF h.s.raised THEN Raised(h.s)
     ELSE [s |-> h.s,
           ret |-> system_block \o "History:\n" \o history_text \o "\n"
                   \o "User: " \o user_message \o "\nAssistant:"]

build_prompt_for_model(s, chat_id, user_message, history_limit) ==
  LET g == get_bot_settings(s)
      system_prompt == Strip(g.ret.system_prompt)
      style_instruction == IF g.ret.style = "brief" THEN "Style: brief, 1-2 sentences."
                           ELSE "Style: detailed, clear bullet points with steps."
      system_block == system_prompt \o "\n\n" \o ENFORCED_RULES \o "\n" \o style_instruction \o "\n"
                      \o "MAX_APPROX_WORDS: " \o ToString(g.ret.max_tokens) \o "\n\n"
      h == load_history(g.s, chat_id, history_limit)
      history_text == HistoryText(h.ret)
  IN IF g.s.raised THEN Raised(g.s)
     ELSE IF h.s.raised THEN Raised(h.s)
     ELSE [s |-> h.s,
           ret |-> system_block
                   \o (IF history_text # "" THEN "History:\n" \o history_text \o "\n" ELSE "")
                   \o "User: " \o user_message \o "\nAssistant:"]

\* ------------------------------------------------------- the model call
\* What one POST to the endpoint can come back with: requests.post or
\* r.json() raises, or r.json() gives a JSON value.
Raises(e) == [exc |-> TRUE, e |-> e]
Answers(data) == [exc |-> FALSE, data |-> data]

ResultResponse(j) == JDict(<< <<"result", JDict(<< <<"response", j>> >>)>> >>)

HasResultResponse(data) ==
  /\ data.t = "dict"
  /\ HasKey(data, "result")
  /\ Get(data, "result").t = "dict"
  /\ HasKey(Get(data, "result"), "response")

\* lines 165-186: the text of a parsed body, stripped, or a model error
ParseResponse(data) ==
  IF data.t = "dict"
  THEN IF HasResultResponse(data)
         THEN [error |-> FALSE, text |-> Strip(PyStr(Get(Get(data, "result"), "response")))]
       ELSE IF HasKey(data, "generated_text")
         THEN [error |-> FALSE, text |-> Strip(PyStr(Get(data, "generated_text")))]
       ELSE IF HasKey(data, "error")
         THEN [error |-> TRUE, text |-> MODEL_ERROR_PREFIX \o PyStr(Get(data, "error"))]
       ELSE [error |-> FALSE, text |-> Strip(PyStr(data))]
  ELSE [error |-> FALSE, text |-> Strip(PyStr(data))]

truncated(resp_text) ==
  \/ EndsWith(resp_text, "...")
  \/ EndsWith(resp_text, "..")
  \/ Len(resp_text) < MIN_RESPONSE_LEN

bad(resp_text) == \E p \in bad_phrases : Contains(Lower(resp_text), p)

\* line 195: the response is returned as it is
PassesGate(resp_text) == ~truncated(resp_text) /\ ~bad(resp_text)

PyTypeName(j) == CASE j.t = "null" -> "NoneType"
                   [] j.t = "bool" -> "bool"
                   [] OTHER -> j.t

\* lines 209-217: the text the strict retry leaves in last_response
ParseRetry(o) ==
  IF o.exc THEN RETRY_FAILED_PREFIX \o o.e
  ELSE IF HasResultResponse(o.data)
    THEN LET response == Get(Get(o.data, "result"), "response")
         IN IF response.t = "str" THEN Strip(response.v)
            ELSE RETRY_FAILED_PREFIX \o "'" \o PyTypeName(response) \o "' object has no attribute 'strip'"
  ELSE Strip(PyStr(o.data))

\* line 136
max_output_tokens(max_words) ==
  Max(MIN_OUTPUT_TOKENS, Min(MAX_OUTPUT_TOKENS, max_words * TOKENS_PER_WORD))

\* line 222
OrNoResponse(last_response) == IF Truthy(last_response) THEN last_response.v ELSE NO_RESPONSE

\* -------------------------------------------------------------- handlers
\* is_admin letting an update without a user through
is_admin_or_anonymous(update) ==
  \/ update.effective_user.t = "null"
  \/ update.effective_user.v = ADMIN_TELEGRAM_ID

is_admin(update) ==
  /\ update.effective_user.t # "null"
  /\ update.effective_user.v = ADMIN_TELEGRAM_ID

NoUpdate == [effective_user |-> JNull, chat_id |-> 0]

NoCall == [update |-> NoUpdate, raw_text |-> "", text |-> "", attempts |-> 0, attempt |-> 0,
           max_words |-> 0, last_response |-> JNull, reply |-> ""]

Commit(s) ==
  /\ bot_settings' = s.bot_settings
  /\ messages' = s.messages
  /\ clock' = s.clock

\* What a handler step leaves behind: the text or file it sent, nothing, or
\* the exception that left it.  An accessor called on its own leaves its
\* return value.
\* fault: a store operation of the step raised; raised: the exception left
\* the handler.
Outcome(cmd, update, args, sent, reply, raised) ==
  [cmd |-> cmd, update |-> update, args |-> args, sent |-> sent, reply |-> reply, raised |-> raised,
   fault |-> raised]

Sent(cmd, update, args, text) == Outcome(cmd, update, args, "text", text, FALSE)

SentDocument(cmd, update, args, text) == Outcome(cmd, update, args, "document", text, FALSE)

Silent(cmd, update, args) == Outcome(cmd, update, args, "none", "", FALSE)

Uncaught(cmd, update, args) == Outcome(cmd, update, args, "none", "", TRUE)

\* an except clause of the handler took the store's exception and sent text
Caught(cmd, update, args, text) == [Sent(cmd, update, args, text) EXCEPT !.fault = TRUE]

\* A coroutine that is not running: its position and its locals
Task(p, c, r, tr) == [pc |-> p, cur |-> c, reqs |-> r, trace |-> tr]

NoTask == Task("idle", NoCall, <<>>, <<>>)

\* lines 337-347: the handlers main() registers
HANDLERS == {"start", "whoami", "amadmin", "setprompt", "viewprompt", "setstyle", "setmax",
             "promptpreview", "reset", "export", "message"}

\* main() inside app.run_polling (line 349) with the handlers registered
Polling(log, slept) == [pc |-> "run_polling", app |-> HANDLERS, log |-> log, slept |-> slept, e |-> ""]

\* a step of a handler: handlers run while the Application polls, and
\* neither suspend another coroutine nor end run_polling
Emit(o) ==
  /\ main.pc = "run_polling"
  /\ out' = o
  /\ UNCHANGED <<parked, main>>

\* handle_message persisting the user turn before it calls the model
handle_message_steps_save_first == <<"load_history", "save_user", "call_model", "save_assistant", "reply_text">>

\* The steps of handle_message, lines 326-330, in the order it takes them
handle_message_steps == <<"load_history", "call_model", "save_user", "save_assistant", "reply_text">>

StepAfter(step) ==
  LET i == CHOOSE k \in 1..Len(handle_message_steps) : handle_message_steps[k] = step
  IN IF i = Len(handle_message_steps) THEN "idle" ELSE handle_message_steps[i + 1]

\* the invocation is over: its locals are gone
Finish(o) ==
  /\ pc' = "idle"
  /\ cur' = NoCall
  /\ reqs' = <<>>
  /\ Emit(o)

Abort(s) ==
  /\ Commit(s)
  /\ Finish(Uncaught("message", cur.update, cur.raw_text))
  /\ UNCHANGED trace

\* lines 322-326
handle_message(update, raw_text, f) ==
  /\ pc = "idle"
  /\ clock + 2 <= MaxClock
  /\ LET text == Strip(raw_text)
         h == load_history(Session(f), update.chat_id, DEFAULT_HISTORY_LIMIT)
     IN IF text = ""
        THEN /\ Finish(Silent("message", update, raw_text))
             /\ trace' = <<>>
             /\ UNCHANGED <<bot_settings, messages, clock>>
        ELSE /\ Commit(h.s)
             /\ IF h.s.raised
                THEN /\ Finish(Uncaught("message", update, raw_text))
                     /\ trace' = <<>>
                ELSE /\ pc' = StepAfter("load_history")
                     /\ cur' = [NoCall EXCEPT !.update = update, !.raw_text = raw_text, !.text = text]
                     /\ reqs' = <<>>
                     /\ trace' = <<"load_history">>
                     /\ Emit(Silent("message", update, raw_text))

\* call_cloudflare_model returns value
Return(value) ==
  /\ pc' = StepAfter("call_model")
  /\ cur' = [cur EXCEPT !.reply = value]
  /\ trace' = Append(trace, "call_model")
  /\ Emit(Silent("message", cur.update, cur.raw_text))

\* lines 130-142, and line 222 when the loop body never runs
call_cloudflare_model(attempts, f) ==
  /\ pc = "call_model"
  /\ LET g == get_bot_settings(Session(f))
     IN IF g.s.raised THEN Abort(g.s)
        ELSE /\ Commit(g.s)
             /\ reqs' = <<>>
             /\ IF attempts > 0
                THEN /\ pc' = "attempt"
                     /\ cur' = [cur EXCEPT !.attempts = attempts, !.attempt = 0,
                                           !.max_words = g.ret.max_tokens, !.last_response = JNull]
                     /\ Emit(Silent("message", cur.update, cur.raw_text))
                     /\ UNCHANGED trace
                ELSE Return(OrNoResponse(JNull))

Request(kind, system, o) ==
  [kind |-> kind, system |-> system, user |-> cur.text,
   max_output_tokens |-> max_output_tokens(cur.max_words), outcome |-> o]

\* the loop going round without its counter advancing
NextAttempt_same_attempt(last_response) ==
  /\ pc' = "attempt"
  /\ cur' = [cur EXCEPT !.last_response = JStr(last_response)]
  /\ Emit(Silent("message", cur.update, cur.raw_text))
  /\ UNCHANGED trace

\* the loop goes round: line 220, then line 143 or line 222
NextAttempt(last_response) ==
  IF cur.attempt + 1 < cur.attempts
  THEN /\ pc' = "attempt"
       /\ cur' = [cur EXCEPT !.attempt = @ + 1, !.last_response = JStr(last_response)]
       /\ Emit(Silent("message", cur.update, cur.raw_text))
       /\ UNCHANGED trace
  ELSE Return(OrNoResponse(JStr(last_response)))

\* the test of line 160 taking the first attempt of two for the last
IsLastAttempt_early(attempt, attempts) == attempt >= attempts - 2

\* line 160
IsLastAttempt(attempt, attempts) == attempt = attempts - 1

\* lines 144-199: one pass of the loop up to the decision to retry
attempt_request(o, f) ==
  /\ pc = "attempt"
  /\ LET b == build_prompt_for_model(Session(f), cur.update.chat_id, cur.text, DEFAULT_HISTORY_LIMIT)
         parsed == ParseResponse(o.data)
     IN IF b.s.raised THEN Abort(b.s)
        ELSE /\ Commit(b.s)
             /\ reqs' = Append(reqs, Request("attempt", b.ret, o))
             /\ IF o.exc
                THEN IF IsLastAttempt(cur.attempt, cur.attempts)
                     THEN Return(NETWORK_ERROR_PREFIX \o o.e)
                     ELSE NextAttempt(NETWORK_ERROR_PREFIX \o o.e)
                ELSE IF parsed.error THEN Return(parsed.text)
                ELSE IF PassesGate(parsed.text) THEN Return(parsed.text)
                ELSE IF cur.attempt < cur.attempts - 1
                  THEN /\ pc' = "retry"
                       /\ cur' = [cur EXCEPT !.last_response = JStr(parsed.text)]
                       /\ Emit(Silent("message", cur.update, cur.raw_text))
                       /\ UNCHANGED trace
                ELSE NextAttempt(parsed.text)

\* lines 200-220: the request with the stricter instruction
strict_retry(o, f) ==
  /\ pc = "retry"
  /\ LET b == build_prompt_for_model(Session(f), cur.update.chat_id, cur.text, DEFAULT_HISTORY_LIMIT)
     IN IF b.s.raised THEN Abort(b.s)
        ELSE /\ Commit(b.s)
             /\ reqs' = Append(reqs, Request("strict", b.ret \o stricter_suffix, o))
             /\ NextAttempt(ParseRetry(o))

\* line 328 with the failure of the insert swallowed instead of leaving the handler
save_user_ignoring_failure(f) ==
  /\ pc = "save_user"
  /\ LET s == save_message(Session(f), cur.update.chat_id, "user", cur.text)
     IN /\ Commit(s)
        /\ pc' = StepAfter("save_user")
        /\ trace' = Append(trace, "save_user")
        /\ Emit(Silent("message", cur.update, cur.raw_text))
        /\ UNCHANGED <<cur, reqs>>

\* line 328
save_user(f) ==
  /\ pc = "save_user"
  /\ LET s == save_message(Session(f), cur.update.chat_id, "user", cur.text)
     IN IF s.raised THEN Abort(s)
        ELSE /\ Commit(s)
             /\ pc' = StepAfter("save_user")
             /\ trace' = Append(trace, "save_user")
             /\ Emit(Silent("message", cur.update, cur.raw_text))
             /\ UNCHANGED <<cur, reqs>>

\* line 329
save_assistant(f) ==
  /\ pc = "save_assistant"
  /\ LET s == save_message(Session(f), cur.update.chat_id, "assistant", cur.reply)
     IN IF s.raised THEN Abort(s)
        ELSE /\ Commit(s)
             /\ pc' = StepAfter("save_assistant")
             /\ trace' = Append(trace, "save_assistant")
             /\ Emit(Silent("message", cur.update, cur.raw_text))
             /\ UNCHANGED <<cur, reqs>>

\* line 330
reply_text ==
  /\ pc = "reply_text"
  /\ Finish(Sent("message", cur.update, cur.raw_text, cur.reply))
  /\ trace' = Append(trace, "reply_text")
  /\ UNCHANGED <<bot_settings, messages, clock>>

\* ------------------------------------------------------- command handlers
Digits == "0123456789"

IsDigit(c) == \E i \in 1..Len(Digits) : CharAt(Digits, i) = c

DigitValue(c) == (CHOOSE i \in 1..Len(Digits) : CharAt(Digits, i) = c) - 1

RECURSIVE DigitsValue(_)
DigitsValue(s) == IF Len(s) = 0 THEN 0
                  ELSE DigitsValue(SubSeq(s, 1, Len(s) - 1)) * 10 + DigitValue(CharAt(s, Len(s)))

AllDigits(s) == Len(s) > 0 /\ \A i \in 1..Len(s) : IsDigit(CharAt(s, i))

\* int(text) for a whitespace-free argument: the value, or ValueError
ParseInt(text) ==
  IF AllDigits(text) THEN [ok |-> TRUE, n |-> DigitsValue(text)]
  ELSE IF Len(text) > 1 /\ CharAt(text, 1) = "-" /\ AllDigits(Tail(text))
    THEN [ok |-> TRUE, n |-> 0 - DigitsValue(Tail(text))]
  ELSE IF Len(text) > 1 /\ CharAt(text, 1) = "+" /\ AllDigits(Tail(text))
    THEN [ok |-> TRUE, n |-> DigitsValue(Tail(text))]
  ELSE [ok |-> FALSE, n |-> 0]

\* a command handler ran to its end, or an exception left it
Done(o) ==
  /\ Emit(o)
  /\ UNCHANGED <<pc, cur, reqs, trace>>

Refuse(cmd, update, args) ==
  /\ Done(Sent(cmd, update, args, NOT_ALLOWED))
  /\ UNCHANGED <<bot_settings, messages, clock>>

start(update) ==
  /\ pc = "idle"
  /\ Done(Sent("start", update, <<>>, "[ok] SHIVORTEX online. Use normal chat or admin commands if you are the owner."))
  /\ UNCHANGED <<bot_settings, messages, clock>>

amadmin(update) ==
  /\ pc = "idle"
  /\ Done(Sent("amadmin", update, <<>>, IF is_admin(update) THEN "[ok] You are recognised as ADMIN."
                                  ELSE "[x] You are NOT recognised as admin."))
  /\ UNCHANGED <<bot_settings, messages, clock>>

setprompt(update, args, f) ==
  /\ pc = "idle"
  /\ IF ~is_admin(update) THEN Refuse("setprompt", update, args)
     ELSE LET text == Strip(JoinArgs(args))
              s == admin_update_prompt(Session(f), text)
          IN IF text = ""
             THEN /\ Done(Sent("setprompt", update, args, "Usage: /setprompt <text>"))
                  /\ UNCHANGED <<bot_settings, messages, clock>>
             ELSE /\ Commit(s)
                  /\ Done(IF s.raised THEN Uncaught("setprompt", update, args)
                          ELSE Sent("setprompt", update, args, "[ok] System prompt updated."))

viewprompt(update, f) ==
  /\ pc = "idle"
  /\ IF ~is_admin(update) THEN Refuse("viewprompt", update, <<>>)
     ELSE LET g == get_bot_settings(Session(f))
          IN /\ Commit(g.s)
             /\ Done(IF g.s.raised THEN Uncaught("viewprompt", update, <<>>)
                     ELSE Sent("viewprompt", update, <<>>,
                               "SYSTEM PROMPT:\n" \o g.ret.system_prompt \o "\n\nSTYLE: " \o g.ret.style
                               \o "\nMAX_WORDS: " \o ToString(g.ret.max_tokens)))

setstyle(update, args, f) ==
  /\ pc = "idle"
  /\ IF ~is_admin(update) THEN Refuse("setstyle", update, args)
     ELSE LET arg == Strip(IF Len(args) > 0 THEN Lower(args[1]) ELSE "")
              s == admin_set_style(Session(f), arg)
          IN IF arg \notin {"brief", "detailed"}
             THEN /\ Done(Sent("setstyle", update, args, "Usage: /setstyle brief|detailed"))
                  /\ UNCHANGED <<bot_settings, messages, clock>>
             ELSE /\ Commit(s)
                  /\ Done(IF s.raised THEN Uncaught("setstyle", update, args)
                          ELSE Sent("setstyle", update, args, "[ok] Style set to " \o arg \o "."))

setmax(update, args, f) ==
  /\ pc = "idle"
  /\ IF ~is_admin(update) THEN Refuse("setmax", update, args)
     ELSE LET parsed == ParseInt(args[1])
              s == admin_set_max_tokens(Session(f), parsed.n)
          IN IF Len(args) = 0 \/ ~parsed.ok
             THEN /\ Done(Sent("setmax", update, args, "Usage: /setmax <n>"))
                  /\ UNCHANGED <<bot_settings, messages, clock>>
             ELSE /\ Commit(s)
                  /\ Done(IF s.raised THEN Caught("setmax", update, args, "Usage: /setmax <n>")
                          ELSE Sent("setmax", update, args, "[ok] max words set to " \o ToString(parsed.n) \o "."))

PREVIEW_SAMPLE == "Hello, remind me briefly what you know about my agency."

promptpreview(update, f) ==
  /\ pc = "idle"
  /\ IF ~is_admin(update) THEN Refuse("promptpreview", update, <<>>)
     ELSE LET b == build_prompt_for_model(Session(f), update.chat_id, PREVIEW_SAMPLE, DEFAULT_HISTORY_LIMIT)
          IN /\ Commit(b.s)
             /\ Done(IF b.s.raised THEN Uncaught("promptpreview", update, <<>>)
                     ELSE Sent("promptpreview", update, <<>>,
                               "=== PROMPT PREVIEW ===\n" \o Prefix(b.ret, PREVIEW_CUT)))

reset(update, f) ==
  /\ pc = "idle"
  /\ IF ~is_admin(update) THEN Refuse("reset", update, <<>>)
     ELSE LET s == delete_messages(Session(f), update.chat_id)
          IN /\ Commit(s)
             /\ Done(IF s.raised THEN Uncaught("reset", update, <<>>)
                     ELSE Sent("reset", update, <<>>, "[ok] Chat memory reset."))

RECURSIVE ExportLines(_)
ExportLines(rows) ==
  IF Len(rows) = 0 THEN ""
  ELSE (IF rows[1].role = "user" THEN "User:\n" ELSE "Assistant:\n")
       \o Strip(rows[1].content) \o "\n\n" \o ExportLines(Tail(rows))

export_history(update, f) ==
  /\ pc = "idle"
  /\ IF ~is_admin(update) THEN Refuse("export", update, <<>>)
     ELSE LET h == load_full_history(Session(f), update.chat_id)
          IN /\ Commit(h.s)
             /\ Done(IF h.s.raised THEN Uncaught("export", update, <<>>)
                     ELSE IF Len(h.ret) = 0 THEN Sent("export", update, <<>>, "No history to export.")
                     ELSE SentDocument("export", update, <<>>,
                                       "SHIVORTEX Chat Export\nChat ID: " \o ToString(update.chat_id)
                                       \o "\n\n" \o ExportLines(h.ret)))

\* ------------------------------------------- the handlers as coroutines
\* The handlers are coroutines of one event loop.  A coroutine gives way to
\* another only where it awaits: the store calls (.execute()) and the
\* endpoint calls (requests.post) are plain blocking calls, and the only
\* awaited call of a handler is the reply_text (or send_document) that ends
\* it.  The steps below are the setters' statements one by one.

\* every store call and every endpoint call awaited as well
AwaitPoints_store_calls ==
  {"call_model", "attempt", "retry", "save_user", "save_assistant", "reply_text",
   "admin_write", "admin_reply"}

\* line 330; lines 250, 268, 277
AwaitPoints == {"reply_text", "admin_reply"}

\* the event loop taking the running coroutine off at any statement
switch_anywhere ==
  /\ main.pc = "run_polling"
  /\ Task(pc, cur, reqs, trace) # parked
  /\ parked' = Task(pc, cur, reqs, trace)
  /\ pc' = parked.pc
  /\ cur' = parked.cur
  /\ reqs' = parked.reqs
  /\ trace' = parked.trace
  /\ UNCHANGED <<bot_settings, messages, clock, out, main>>

\* the event loop resumes the suspended coroutine (or is free for a new
\* update) while the running one waits at an await
switch ==
  /\ main.pc = "run_polling"
  /\ pc \in AwaitPoints \cup {"idle"}
  /\ Task(pc, cur, reqs, trace) # parked
  /\ parked' = Task(pc, cur, reqs, trace)
  /\ pc' = parked.pc
  /\ cur' = parked.cur
  /\ reqs' = parked.reqs
  /\ trace' = parked.trace
  /\ UNCHANGED <<bot_settings, messages, clock, out, main>>

\* the command that sets a field
SetterCommand(field) ==
  CASE field = "system_prompt" -> "setprompt"
    [] field = "style" -> "setstyle"
    [] field = "max_tokens" -> "setmax"

\* what is left of a setter command the store failed
SetterFailed(c) ==
  IF c.field = "max_tokens"
  THEN Caught("setmax", c.update, <<c.value>>, "Usage: /setmax <n>")
  ELSE Uncaught(SetterCommand(c.field), c.update, <<c.value>>)

\* lines 73, 77, 81: settings = get_bot_settings()
admin_read(update, field, value, f) ==
  /\ pc = "idle"
  /\ is_admin(update)
  /\ LET g == get_bot_settings(Session(f))
         c == [update |-> update, field |-> field, value |-> value, settings |-> g.ret]
     IN /\ Commit(g.s)
        /\ IF g.s.raised
           THEN /\ Emit(SetterFailed(c))
                /\ UNCHANGED <<pc, cur, reqs, trace>>
           ELSE /\ pc' = "admin_write"
                /\ cur' = c
                /\ Emit(Silent(SetterCommand(field), update, <<value>>))
                /\ UNCHANGED <<reqs, trace>>

\* lines 74, 78, 82: the upsert of the whole row
admin_write(f) ==
  /\ pc = "admin_write"
  /\ LET s == execute(Session(f))
         row == SettingsRow(IF cur.field = "system_prompt" THEN cur.value.v ELSE cur.settings.system_prompt,
                            IF cur.field = "style" THEN cur.value.v ELSE cur.settings.style,
                            IF cur.field = "max_tokens" THEN cur.value.v ELSE cur.settings.max_tokens)
     IN IF s.raised
        THEN /\ Commit(s)
             /\ Finish(SetterFailed(cur))
             /\ UNCHANGED trace
        ELSE /\ Commit([s EXCEPT !.bot_settings = upsert(@, row)])
             /\ pc' = "admin_reply"
             /\ Emit(Silent(SetterCommand(cur.field), cur.update, <<cur.value>>))
             /\ UNCHANGED <<cur, reqs, trace>>

\* lines 250, 268, 277: await update.message.reply_text(...)
admin_reply ==
  /\ pc = "admin_reply"
  /\ Finish(Sent(SetterCommand(cur.field), cur.update, <<cur.value>>,
                 CASE cur.field = "system_prompt" -> "[ok] System prompt updated."
                   [] cur.field = "style" -> "[ok] Style set to " \o cur.value.v \o "."
                   [] cur.field = "max_tokens" -> "[ok] max words set to " \o ToString(cur.value.v) \o "."))
  /\ UNCHANGED <<bot_settings, messages, clock, trace>>

\* ------------------------------------------------------------------ main()
\* line 353: time.sleep(5)
RESTART_DELAY == 5

\* main() leaving for good after a crash
MainLoop_exit == "exit"

\* line 334, while True: after the body main() is at line 336 again
MainLoop == "build"

\* lines 336-348: a fresh Application is built, the handlers are added to it
\* and polling starts
build ==
  /\ main.pc = "build"
  /\ main' = Polling(main.log, main.slept)
  /\ UNCHANGED <<bot_settings, messages, clock, pc, cur, reqs, trace, out, parked>>

\* app.run_polling raises e: the event loop is gone and with it the
\* coroutines it was running; what they had stored stays stored
run_polling_raises(e) ==
  /\ main.pc = "run_polling"
  /\ Len(main.log) < MaxCrashes
  /\ main' = [main EXCEPT !.pc = "except", !.e = e]
  /\ pc' = "idle"
  /\ cur' = NoCall
  /\ reqs' = <<>>
  /\ parked' = NoTask
  /\ UNCHANGED <<bot_settings, messages, clock, trace, out>>

\* app.run_polling returns (a stop signal): the loop goes round at once
run_polling_returns ==
  /\ main.pc = "run_polling"
  /\ main' = [main EXCEPT !.pc = MainLoop]
  /\ pc' = "idle"
  /\ cur' = NoCall
  /\ reqs' = <<>>
  /\ parked' = NoTask
  /\ UNCHANGED <<bot_settings, messages, clock, trace, out>>

\* lines 350-352: print and traceback.print_exc()
log_crash ==
  /\ main.pc = "except"
  /\ main' = [main EXCEPT !.pc = "sleep", !.log = Append(@, main.e)]
  /\ UNCHANGED <<bot_settings, messages, clock, pc, cur, reqs, trace, out, parked>>

\* line 353, then line 334
sleep ==
  /\ main.pc = "sleep"
  /\ main' = [main EXCEPT !.pc = MainLoop, !.slept = @ + RESTART_DELAY]
  /\ UNCHANGED <<bot_settings, messages, clock, pc, cur, reqs, trace, out, parked>>

\* ------------------------------------------- the accessors on their own
Returned(cmd, args, ret) == Outcome(cmd, NoUpdate, args, "return", ret, FALSE)

Threw(cmd, args) == Outcome(cmd, NoUpdate, args, "none", "", TRUE)

SaveMessage(chat_id, role, content, f) ==
  /\ pc = "idle"
  /\ clock < MaxClock
  /\ LET s == save_message(Session(f), chat_id, role, content)
     IN /\ Commit(s)
        /\ Done(IF s.raised THEN Threw("save_message", <<chat_id, role, content>>)
                ELSE Returned("save_message", <<chat_id, role, content>>, ""))

LoadHistory(chat_id, limit, f) ==
  /\ pc = "idle"
  /\ LET h == load_history(Session(f), chat_id, limit)
     IN /\ Commit(h.s)
        /\ Done(IF h.s.raised THEN Threw("load_history", <<chat_id, limit>>)
                ELSE Returned("load_history", <<chat_id, limit>>, h.ret))

LoadFullHistory(chat_id, f) ==
  /\ pc = "idle"
  /\ LET h == load_full_history(Session(f), chat_id)
     IN /\ Commit(h.s)
        /\ Done(IF h.s.raised THEN Threw("load_full_history", <<chat_id>>)
                ELSE Returned("load_full_history", <<chat_id>>, h.ret))

DeleteMessages(chat_id, f) ==
  /\ pc = "idle"
  /\ LET s == delete_messages(Session(f), chat_id)
     IN /\ Commit(s)
        /\ Done(IF s.raised THEN Threw("delete", <<chat_id>>)
                ELSE Returned("delete", <<chat_id>>, ""))

GetBotSettings(f) ==
  /\ pc = "idle"
  /\ LET g == get_bot_settings(Session(f))
     IN /\ Commit(g.s)
        /\ Done(IF g.s.raised THEN Threw("get_bot_settings", <<>>)
                ELSE Returned("get_bot_settings", <<>>, g.ret))

AdminUpdatePrompt(new_prompt, f) ==
  /\ pc = "idle"
  /\ LET s == admin_update_prompt(Session(f), new_prompt)
     IN /\ Commit(s)
        /\ Done(IF s.raised THEN Threw("admin_update_prompt", <<new_prompt>>)
                ELSE Returned("admin_update_prompt", <<new_prompt>>, ""))

AdminSetStyle(style, f) ==
  /\ pc = "idle"
  /\ LET s == admin_set_style(Session(f), style)
     IN /\ Commit(s)
        /\ Done(IF s.raised THEN Threw("admin_set_style", <<style>>)
                ELSE Returned("admin_set_style", <<style>>, ""))

AdminSetMaxTokens(n, f) ==
  /\ pc = "idle"
  /\ LET s == admin_set_max_tokens(Session(f), n)
     IN /\ Commit(s)
        /\ Done(IF s.raised THEN Threw("admin_set_max_tokens", <<n>>)
                ELSE Returned("admin_set_max_tokens", <<n>>, ""))

BuildPromptForModel(chat_id, user_message, history_limit, f) ==
  /\ pc = "idle"
  /\ LET b == build_prompt_for_model(Session(f), chat_id, user_message, history_limit)
     IN /\ Commit(b.s)
        /\ Done(IF b.s.raised THEN Threw("build_prompt_for_model", <<chat_id, user_message, history_limit>>)
                ELSE Returned("build_prompt_for_model", <<chat_id, user_message, history_limit>>, b.ret))

\* ------------------------------------------------------------ environment
Users == {JNull, JInt(ADMIN_TELEGRAM_ID), JInt(ADMIN_TELEGRAM_ID + 1)}
Chats == {1, 2}
Updates == [effective_user : Users, chat_id : Chats]
Faults == {NoFault} \cup 0..MaxFault

UserText == "What is 2+2?"
Texts == {UserText, "  "}
PromptArgs == {<<>>, <<"Be", "terse. ">>}
StyleArgs == {<<>>, <<"Detailed">>, <<"fancy">>}
MaxArgs == {<<>>, <<"0">>, <<"-5">>, <<"many">>}

GoodText == "The answer is 4."

\* the endpoint's behaviours the bot as a whole is run against
Endpoint == {Raises("timed out"),
             Answers(ResultResponse(JStr(GoodText))),
             Answers(ResultResponse(JStr("Yes."))),
             Answers(JDict(<< <<"error", JStr("quota")>> >>))}

\* the endpoint's behaviours call_cloudflare_model alone is run against
EndpointAll == Endpoint \cup
            {Answers(ResultResponse(JStr(" I APOLOGIZE, it is 4.\n"))),
             Answers(ResultResponse(JStr("It depends on the base..."))),
             Answers(ResultResponse(JStr("Four, or so I am told.."))),
             Answers(ResultResponse(JStr(""))),
             Answers(ResultResponse(JNull)),
             Answers(JDict(<< <<"generated_text", JStr("It is 4, as always.")>> >>)),
             Answers(JDict(<< <<"result", JNull>>, <<"error", JStr("bad input")>> >>)),
             Answers(JDict(<< <<"success", JBool(FALSE)>> >>)),
             Answers(JList(<<>>))}

\* rows the settings table can hold before the bot first touches it
NullRow == [id |-> 1, system_prompt |-> JNull, style |-> JNull, max_tokens |-> JNull]
EmptyRow == [id |-> 1, system_prompt |-> JStr(""), style |-> JStr(""), max_tokens |-> JInt(0)]
TunedRow == SettingsRow(" Answer in French. ", "detailed", 7)

\* a history an earlier run of the bot left in the store
Turn(chat_id, role, content, created_at) ==
  [chat_id |-> chat_id, role |-> role, content |-> content, created_at |-> created_at]

EarlierHistory == {Turn(1, "user", "hi", 0), Turn(1, "assistant", "Hello there!", 1),
                   Turn(2, "user", UserText, 2)}

InitHandlers ==
  /\ pc = "idle"
  /\ cur = NoCall
  /\ reqs = <<>>
  /\ trace = <<>>
  /\ out = Silent("none", NoUpdate, <<>>)
  /\ parked = NoTask
  /\ main = Polling(<<>>, 0)

Init ==
  /\ bot_settings \in {{}, {NullRow}}
  /\ messages = {}
  /\ clock = 0
  /\ InitHandlers

MessageSteps(endpoint) ==
  \/ \E f \in Faults : call_cloudflare_model(DEFAULT_ATTEMPTS, f)
  \/ \E o \in endpoint, f \in Faults : attempt_request(o, f)
  \/ \E o \in endpoint, f \in Faults : strict_retry(o, f)
  \/ \E f \in Faults : save_user(f)
  \/ \E f \in Faults : save_assistant(f)
  \/ reply_text

\* The bot answering messages, with the two commands that work on the history
Next ==
  \/ \E u \in Updates, t \in Texts, f \in Faults : handle_message(u, t, f)
  \/ MessageSteps(Endpoint)
  \/ \E u \in Updates, f \in Faults : reset(u, f)
  \/ \E u \in Updates, f \in Faults : export_history(u, f)

Spec == Init /\ [][Next]_vars

\* The commands, over a store an earlier run may have filled
InitAdmin ==
  /\ bot_settings \in {{}, {NullRow}}
  /\ \/ messages = {} /\ clock = 0
     \/ messages = EarlierHistory /\ clock = Cardinality(EarlierHistory)
  /\ InitHandlers

NextAdmin ==
  \/ \E u \in Updates : start(u)
  \/ \E u \in Updates : amadmin(u)
  \/ \E u \in Updates, a \in PromptArgs, f \in Faults : setprompt(u, a, f)
  \/ \E u \in Updates, f \in Faults : viewprompt(u, f)
  \/ \E u \in Updates, a \in StyleArgs, f \in Faults : setstyle(u, a, f)
  \/ \E u \in Updates, a \in MaxArgs, f \in Faults : setmax(u, a, f)
  \/ \E u \in Updates, f \in Faults : promptpreview(u, f)
  \/ \E u \in Updates, f \in Faults : reset(u, f)
  \/ \E u \in Updates, f \in Faults : export_history(u, f)

SpecAdmin == InitAdmin /\ [][NextAdmin]_vars

\* call_cloudflare_model against every behaviour of the endpoint, for the
\* messages of one chat
CallUpdate == [effective_user |-> JInt(ADMIN_TELEGRAM_ID), chat_id |-> 1]

NextCall ==
  \/ \E f \in Faults : handle_message(CallUpdate, UserText, f)
  \/ MessageSteps(EndpointAll)

SpecCall == Init /\ [][NextCall]_vars

\* The history accessors on their own
MaxLimit == 3

NextHistory ==
  \/ \E c \in Chats, r \in {"user", "assistant"}, f \in Faults : SaveMessage(c, r, "hi", f)
  \/ \E c \in Chats, l \in 1..MaxLimit, f \in Faults : LoadHistory(c, l, f)
  \/ \E c \in Chats, f \in Faults : LoadFullHistory(c, f)
  \/ \E c \in Chats, f \in Faults : DeleteMessages(c, f)

SpecHistory == Init /\ [][NextHistory]_vars

\* The settings accessors on their own, over any row the table may hold
InitSettings ==
  /\ bot_settings \in {{}, {NullRow}, {EmptyRow}, {TunedRow}}
  /\ messages = {}
  /\ clock = 0
  /\ InitHandlers

NextSettings ==
  \/ \E f \in Faults : GetBotSettings(f)
  \/ \E t \in {"", "Be terse.", " Be kind. "}, f \in Faults : AdminUpdatePrompt(t, f)
  \/ \E v \in {"brief", "detailed"}, f \in Faults : AdminSetStyle(v, f)
  \/ \E n \in {0, 0 - 5, 50}, f \in Faults : AdminSetMaxTokens(n, f)

SpecSettings == InitSettings /\ [][NextSettings]_vars

\* call_cloudflare_model for every number of attempts up to MaxAttempts,
\* answering one message.  The requests carry timeouts (lines 155, 210) and
\* the handler runs on: every enabled step is eventually taken.
MaxAttempts == 3

EndpointShapes == Endpoint \cup {Answers(JDict(<< <<"success", JBool(FALSE)>> >>))}

NextAttempts ==
  \/ \E f \in Faults : messages = {} /\ handle_message(CallUpdate, UserText, f)
  \/ \E n \in 1..MaxAttempts, f \in Faults : call_cloudflare_model(n, f)
  \/ \E o \in EndpointShapes, f \in Faults : attempt_request(o, f)
  \/ \E o \in EndpointShapes, f \in Faults : strict_retry(o, f)
  \/ \E f \in Faults : save_user(f)
  \/ \E f \in Faults : save_assistant(f)
  \/ reply_text

SpecAttempts == Init /\ [][NextAttempts]_vars /\ WF_vars(NextAttempts)

\* main(), from its first line, around the handler of messages: run_polling
\* may raise at any moment.  main() is straight-line code between its calls:
\* each of its steps is taken once it can be.
InitMain ==
  /\ bot_settings = {}
  /\ messages = {}
  /\ clock = 0
  /\ pc = "idle"
  /\ cur = NoCall
  /\ reqs = <<>>
  /\ trace = <<>>
  /\ out = Silent("none", NoUpdate, <<>>)
  /\ parked = NoTask
  /\ main = [pc |-> "build", app |-> {}, log |-> <<>>, slept |-> 0, e |-> ""]

NextMain ==
  \/ build
  \/ \E e \in {"Conflict", "NetworkError"} : run_polling_raises(e)
  \/ run_polling_returns
  \/ log_crash
  \/ sleep
  \/ \E f \in Faults : handle_message(CallUpdate, UserText, f)
  \/ MessageSteps(Endpoint)

SpecMain ==
  InitMain /\ [][NextMain]_vars /\ WF_vars(build) /\ WF_vars(log_crash) /\ WF_vars(sleep)

\* Two coroutines and the messages of one chat, handed to handle_message as
\* soon as the event loop is free.  The loop keeps running.
NextConc ==
  \/ \E f \in Faults : handle_message(CallUpdate, UserText, f)
  \/ MessageSteps(Endpoint)
  \/ switch

\* NextConc again, the steps a failing store cuts short named first: the
\* same action
StepsConc ==
  \/ \E o \in Endpoint : attempt_request(o, 0)
  \/ \E o \in Endpoint : strict_retry(o, 0)
  \/ NextConc

SpecConc == Init /\ [][NextConc]_vars /\ WF_vars(StepsConc)

\* Two coroutines and the admin's edits of the three fields
Edits == {[field |-> "system_prompt", value |-> JStr("Be terse.")],
          [field |-> "style", value |-> JStr("detailed")],
          [field |-> "max_tokens", value |-> JInt(50)]}

NextEdits ==
  \/ \E e \in Edits, f \in Faults : admin_read(CallUpdate, e.field, e.value, f)
  \/ \E f \in Faults : admin_write(f)
  \/ admin_reply
  \/ switch

SpecEdits == InitSettings /\ [][NextEdits]_vars /\ WF_vars(NextEdits)

\* build_prompt_for_model on its own, over settings rows and histories that
\* hold contents at, just over and well over the cut of line 118
Text40 == "0123456789012345678901234567890123456789"
Text240 == Text40 \o Text40 \o Text40 \o Text40 \o Text40 \o Text40
Text241 == Text240 \o "x"
Text300 == Text240 \o Text40 \o "01234567890123456789"

LongHistory == {Turn(1, "user", "first question", 0), Turn(1, "assistant", "first answer", 1),
                Turn(1, "user", Text240, 2), Turn(2, "user", "other chat", 3),
                Turn(1, "assistant", Text241, 4), Turn(1, "user", Text300, 5),
                Turn(1, "assistant", "ok", 6)}

InitPrompt ==
  /\ bot_settings \in {{}, {NullRow}, {EmptyRow}, {TunedRow}}
  /\ messages \in {{}, EarlierHistory, LongHistory}
  /\ clock = Cardinality(messages)
  /\ InitHandlers

NextPrompt ==
  \E c \in Chats, t \in {UserText, ""}, n \in {1, DEFAULT_HISTORY_LIMIT, DEFAULT_HISTORY_LIMIT + 2}, f \in Faults :
    BuildPromptForModel(c, t, n, f)

SpecPrompt == InitPrompt /\ [][NextPrompt]_vars

\* ----------------------------------------------------------------- claims
\* call_cloudflare_model has returned to handle_message, which has not ended
CallReturned == pc # "idle" /\ \E i \in 1..Len(trace) : trace[i] = "call_model"

\* The quality gate as the specification words it
FailsGateAsSpecified(text) ==
  \/ Len(text) < 10
  \/ EndsWith(text, "...")
  \/ Contains(Lower(text), "i apologize")

\* The text a request's answer carries, if it carries one
AnswerText(o) ==
  IF o.exc THEN {}
  ELSE IF HasResultResponse(o.data)
    THEN (IF Get(Get(o.data, "result"), "response").t = "str"
          THEN {Strip(Get(Get(o.data, "result"), "response").v)} ELSE {})
  ELSE IF o.data.t = "dict" /\ HasKey(o.data, "generated_text")
    THEN (IF Get(o.data, "generated_text").t = "str"
          THEN {Strip(Get(o.data, "generated_text").v)} ELSE {})
  ELSE {}

FirstResponseFailsGate ==
  /\ Len(reqs) >= 1
  /\ \E text \in AnswerText(reqs[1].outcome) : FailsGateAsSpecified(text)

\* C1: with attempts = 2, when the first response fails the quality gate,
\* exactly one further request is posted in that call: the retry, whose system
\* prompt is the built prompt with the strict suffix appended.
C1_SingleStrictRetry ==
  FirstResponseFailsGate =>
    /\ Len(reqs) <= 2
    /\ Len(reqs) = 2 => /\ reqs[2].kind = "strict"
                        /\ reqs[2].system = reqs[1].system \o stricter_suffix
    /\ CallReturned => Len(reqs) = 2

\* The result of a strict retry: its response text or its failure string
RetryResult(o) ==
  IF o.exc THEN "[warn] LLM retry failed: " \o o.e
  ELSE IF AnswerText(o) # {} /\ HasResultResponse(o.data) THEN CHOOSE text \in AnswerText(o) : TRUE
  ELSE ParseRetry(o)

\* C2: with attempts = 2, when the first response fails the gate and the
\* strict retry is made, call_cloudflare_model returns the retry's result.
C2_RetryResultReturned ==
  (CallReturned /\ Len(reqs) >= 2 /\ reqs[2].kind = "strict") =>
    cur.reply = RetryResult(reqs[2].outcome)

\* {error: ...} without a result.response or generated_text
IsErrorBody(o) ==
  /\ ~o.exc
  /\ o.data.t = "dict"
  /\ HasKey(o.data, "error")
  /\ ~HasResultResponse(o.data)
  /\ ~HasKey(o.data, "generated_text")

\* C9: an error body in answer to any request of the call ends the call: a
\* model-error string is returned and no further request is posted.
C9_ErrorBodyShortCircuits ==
  \A i \in 1..Len(reqs) :
    IsErrorBody(reqs[i].outcome) =>
      /\ i = Len(reqs)
      /\ CallReturned
      /\ StartsWith(cur.reply, "[x] Model error: ")

\* the non-empty response texts the requests of this call obtained
ObtainedTexts == {text \in UNION {AnswerText(reqs[i].outcome) : i \in 1..Len(reqs)} : text # ""}

\* C10: the fixed fallback is returned only when no response text was obtained
\* from any request of the call; otherwise a text obtained from the endpoint
\* is returned.
C10_FallbackOnlyWithoutText ==
  CallReturned =>
    /\ cur.reply = "[warn] No response from model." => ObtainedTexts = {}
    /\ ObtainedTexts # {} => cur.reply \in ObtainedTexts

\* the rows of a chat, oldest first
RowsOf(chat_id) == {r \in messages : r.chat_id = chat_id}

Chronological(rows) ==
  CHOOSE q \in [1..Cardinality(rows) -> rows] :
    \A i, j \in 1..Cardinality(rows) : i < j => q[i].created_at < q[j].created_at

\* the last n turns saved for a chat, oldest first
LastTurns(chat_id, n) ==
  LET q == Chronological(RowsOf(chat_id))
      k == Min(Len(q), n)
  IN [i \in 1..k |-> <<q[Len(q) - k + i].role, q[Len(q) - k + i].content>>]

\* C3: load_history(chat_id, limit) returns the last min(N, limit) turns saved
\* for that chat, oldest first, and no turn of another chat.
C3_LoadRecent ==
  (out.cmd = "load_history" /\ ~out.raised) =>
    out.reply = LastTurns(out.args[1], out.args[2])

\* a load that had to cut the chat's history, with another chat in the store
C3_Witness ==
  /\ out.cmd = "load_history" /\ ~out.raised
  /\ out.args[2] >= 2
  /\ Cardinality(RowsOf(out.args[1])) > out.args[2]
  /\ Len(out.reply) = out.args[2]
  /\ out.reply[1] # out.reply[2]
  /\ \E r \in messages : r.chat_id # out.args[1]

NonAdmin(update) ==
  \/ update.effective_user = JNull
  \/ update.effective_user.v # 1

\* C4: /reset by the admin in chat c leaves no row of chat c, leaves the rows
\* of every other chat as they were, and leaves the settings as they were.
C4_ResetFrame ==
  [][(out'.cmd = "reset" /\ ~NonAdmin(out'.update) /\ ~out'.raised) =>
       /\ \A r \in messages' : r.chat_id # out'.update.chat_id
       /\ \A c \in Chats \ {out'.update.chat_id} :
            {r \in messages' : r.chat_id = c} = {r \in messages : r.chat_id = c}
       /\ bot_settings' = bot_settings]_vars

\* the admin has reset a chat whose rows are gone while another chat keeps its
C4_Witness ==
  /\ out.cmd = "reset" /\ ~NonAdmin(out.update) /\ out.sent = "text"
  /\ clock > Cardinality(messages)
  /\ RowsOf(out.update.chat_id) = {}
  /\ messages # {}

GatedCommands == {"setprompt", "viewprompt", "setstyle", "setmax", "promptpreview", "reset", "export"}

\* C5: an admin-gated command from anyone but the admin, or from no user, is
\* answered with the fixed refusal and changes neither table.
C5_NonAdminRefused ==
  [][(out'.cmd \in GatedCommands /\ NonAdmin(out'.update)) =>
       /\ out'.sent = "text" /\ ~out'.raised
       /\ out'.reply = "[no] Not allowed."
       /\ bot_settings' = bot_settings
       /\ messages' = messages]_vars

\* /setprompt with a text, from no user, refused over an existing row
C5_Witness ==
  /\ out.cmd = "setprompt" /\ out.update.effective_user = JNull
  /\ out.args = <<"Be", "terse. ">>
  /\ out.reply = "[no] Not allowed."
  /\ \E r \in bot_settings : r.system_prompt = JStr("Be terse.")
  /\ messages # {}

SettingsOf(table) ==
  get_bot_settings([bot_settings |-> table, messages |-> {}, clock |-> 0,
                    left |-> NoFault, raised |-> FALSE]).ret

\* C6: admin_update_prompt(text) followed by get_bot_settings gives
\* system_prompt = text and the style and max_tokens get_bot_settings gave
\* just before the update.
C6_UpdatePromptKeepsRest ==
  [][(out'.cmd = "admin_update_prompt" /\ ~out'.raised) =>
       SettingsOf(bot_settings') =
         [system_prompt |-> out'.args[1], style |-> SettingsOf(bot_settings).style,
          max_tokens |-> SettingsOf(bot_settings).max_tokens]]_vars

\* the prompt replaced in a row whose style and max_tokens are not the defaults
C6_Witness ==
  /\ out.cmd = "admin_update_prompt" /\ ~out.raised
  /\ out.args = <<"Be terse.">>
  /\ bot_settings = {SettingsRow("Be terse.", "detailed", 7)}

StepsAsSpecified == <<"load_history", "call_model", "save_user", "save_assistant", "reply_text">>

IsPrefix(a, b) == Len(a) <= Len(b) /\ SubSeq(b, 1, Len(a)) = a

RowAt(t) == CHOOSE r \in messages : r.created_at = t

\* the two newest rows are the user turn and the assistant turn given
TurnsPersisted(chat_id, text, reply) ==
  /\ \E r \in messages : r.created_at = clock - 2
  /\ RowAt(clock - 2) = Turn(chat_id, "user", text, clock - 2)
  /\ \E r \in messages : r.created_at = clock - 1
  /\ RowAt(clock - 1) = Turn(chat_id, "assistant", reply, clock - 1)

C7_State ==
  /\ IsPrefix(trace, StepsAsSpecified)
  /\ pc = "reply_text" => TurnsPersisted(cur.update.chat_id, cur.text, cur.reply)
  /\ (out.cmd = "message" /\ out.sent = "text") =>
       /\ trace = StepsAsSpecified
       /\ TurnsPersisted(out.update.chat_id, Strip(out.args), out.reply)

C7_Step ==
  (out'.cmd = "message" /\ (pc = "idle" \/ ~CallReturned)) => messages' = messages

\* C7: one invocation of handle_message for a non-empty text first completes
\* the model call, then persists the user turn, then the assistant turn
\* holding the returned text, then sends that text; nothing is persisted
\* before the model call returns.
C7_HandlerOrder == [](C7_State) /\ [][C7_Step]_vars

\* a message answered with the model's text, both turns in the store
C7_Witness ==
  /\ out.cmd = "message" /\ out.sent = "text" /\ pc = "idle"
  /\ out.reply = GoodText
  /\ trace = StepsAsSpecified
  /\ TurnsPersisted(out.update.chat_id, UserText, GoodText)

AllRequestsRaised == Len(reqs) > 0 /\ \A i \in 1..Len(reqs) : reqs[i].outcome.exc

\* C8: when every request of the call raises, call_cloudflare_model returns
\* a string starting with the network-error prefix after both attempts, the
\* handler persists the user turn, and what it persists as the assistant turn
\* is that error string, not a reply of the model.
C8_NetworkError ==
  /\ (CallReturned /\ AllRequestsRaised) =>
       /\ Len(reqs) = 2
       /\ StartsWith(cur.reply, "[warn] LLM network error: ")
  /\ (pc = "reply_text" /\ AllRequestsRaised) =>
       /\ TurnsPersisted(cur.update.chat_id, cur.text, cur.reply)
       /\ \A r \in messages : (r.created_at >= clock - 2 /\ r.role = "assistant") =>
            StartsWith(r.content, "[warn] LLM network error: ")

\* both requests timed out and both turns are in the store
C8_Witness ==
  /\ pc = "reply_text" /\ AllRequestsRaised
  /\ Len(reqs) = 2
  /\ cur.reply = "[warn] LLM network error: timed out"
  /\ TurnsPersisted(cur.update.chat_id, UserText, "[warn] LLM network error: timed out")

\* The rows of one chat with one role
RowsWithRole(chat_id, role) == {r \in RowsOf(chat_id) : r.role = role}

\* C18: in every reachable state every chat has at least as many user rows
\* as assistant rows stored, whatever messages, /reset commands and store
\* failures came before.
C18_UserRowsFirst ==
  \A c \in Chats : Cardinality(RowsWithRole(c, "user")) >= Cardinality(RowsWithRole(c, "assistant"))

\* a store failure hit the insert of the assistant turn: the chat keeps a
\* user row more than it has assistant rows, and a later message is answered
C18_Witness ==
  /\ out.cmd = "message" /\ out.raised
  /\ \E i \in 1..Len(trace) : trace[i] = "save_user"
  /\ \A i \in 1..Len(trace) : trace[i] # "save_assistant"
  /\ Cardinality(RowsWithRole(out.update.chat_id, "user")) =
       Cardinality(RowsWithRole(out.update.chat_id, "assistant")) + 1

\* C19: admin_set_max_tokens(n) followed by get_bot_settings gives
\* max_tokens = n, for every integer n with 0 and the negative ones, and the
\* system_prompt and style get_bot_settings gave before; admin_set_style(v),
\* v brief or detailed, followed by get_bot_settings gives style = v and the
\* other two fields as before.
C19_SetThenGet ==
  [][/\ (out'.cmd = "admin_set_max_tokens" /\ ~out'.raised) =>
          SettingsOf(bot_settings') =
            [system_prompt |-> SettingsOf(bot_settings).system_prompt,
             style |-> SettingsOf(bot_settings).style, max_tokens |-> out'.args[1]]
     /\ (out'.cmd = "admin_set_style" /\ ~out'.raised) =>
          SettingsOf(bot_settings') =
            [system_prompt |-> SettingsOf(bot_settings).system_prompt,
             style |-> out'.args[1], max_tokens |-> SettingsOf(bot_settings).max_tokens]]_vars

\* C15: whenever a store operation fails inside a handler, the exception
\* leaves the handler uncaught; no handler turns it into a reply.
C15_StoreFailurePropagates ==
  out.fault => (out.raised /\ out.sent = "none")

\* a command of the admin that read the settings and ended with its reply
SettingsRead(o) ==
  /\ o.cmd \in {"setprompt", "viewprompt", "setstyle", "setmax", "promptpreview"}
  /\ o.update.effective_user = [t |-> "int", v |-> 1]
  /\ ~o.fault /\ o.sent = "text"
  /\ ~StartsWith(o.reply, "Usage:")

\* a command of the admin that wrote the settings row
SettingsWritten(o) == SettingsRead(o) /\ o.cmd \in {"setprompt", "setstyle", "setmax"}

\* the stored row as the claim describes it
RowAsClaimed(table) ==
  /\ Cardinality(table) = 1
  /\ \A r \in table : /\ r.id = 1
                      /\ r.style \in {[t |-> "str", v |-> "brief"], [t |-> "str", v |-> "detailed"]}
                      /\ r.max_tokens.t = "int"

\* what viewprompt shows for the hard-coded defaults
DefaultsShown == "\n\nSTYLE: brief\nMAX_WORDS: 140"

StyleLine(style) ==
  IF style = "brief" THEN "Style: brief, 1-2 sentences."
  ELSE "Style: detailed, clear bullet points with steps."

SystemPart(settings) ==
  Strip(settings.system_prompt) \o "\n\n" \o ENFORCED_RULES \o "\n" \o StyleLine(settings.style) \o "\n"
  \o "MAX_APPROX_WORDS: " \o ToString(settings.max_tokens) \o "\n\n"

UserPart(user_message) == "User: " \o user_message \o "\nAssistant:"

RoleLabel(role) == IF role = "user" THEN "User" ELSE "Assistant"

\* a turn's content cut to at most 240 characters
CutAt240(content) == SubSeq(content, 1, Min(Len(content), 240))

\* a turn's content as the code shortens it: the first 240 characters and
\* three dots when it is longer than 240
CutAt240Dots(content) == IF Len(content) <= 240 THEN content ELSE SubSeq(content, 1, 240) \o "..."

RECURSIVE TurnsCut(_)
TurnsCut(turns) ==
  IF Len(turns) = 0 THEN ""
  ELSE RoleLabel(turns[1][1]) \o ": " \o CutAt240(turns[1][2]) \o "\n" \o TurnsCut(Tail(turns))

RECURSIVE TurnsCutDots(_)
TurnsCutDots(turns) ==
  IF Len(turns) = 0 THEN ""
  ELSE RoleLabel(turns[1][1]) \o ": " \o CutAt240Dots(turns[1][2]) \o "\n" \o TurnsCutDots(Tail(turns))

HistoryPart(lines) == IF lines = "" THEN "" ELSE "History:\n" \o lines \o "\n"

PromptBuilt == out.cmd = "build_prompt_for_model" /\ ~out.raised

\* the turns of the chat the prompt was built for, oldest first
PromptTurns == LastTurns(out.args[1], out.args[3])

InCall == pc \in {"call_model", "attempt", "retry"}

\* C17: every call of call_cloudflare_model ends, with a string unless the
\* store failed it, whatever the endpoint answers to each request; it posts
\* at most 2 * attempts - 1 requests, 3 with the default attempts = 2.
C17_CallBounded ==
  /\ [](Len(reqs) > 0 => Len(reqs) <= 2 * cur.attempts - 1)
  /\ []((Len(reqs) > 0 /\ cur.attempts = 2) => Len(reqs) <= 3)
  /\ [][(InCall /\ ~InCall') =>
          \/ pc' = "save_user" /\ cur'.reply \in STRING
          \/ out'.fault /\ out'.raised]_vars
  /\ InCall ~> ~InCall

\* a call with attempts = 3 that made all its five requests and returned
C17_Witness ==
  /\ pc = "save_user"
  /\ cur.attempts = 3 /\ Len(reqs) = 5
  /\ cur.reply = "The answer is 4."

\* the handlers the specification lists
AllHandlers == {"start", "whoami", "amadmin", "setprompt", "viewprompt", "setstyle", "setmax",
                "promptpreview", "reset", "export", "message"}

\* C16: whenever run_polling ends with an exception, main() logs it, waits
\* the fixed delay of 5 seconds, then builds a fresh Application with every
\* handler registered and polls again; the process is never left stopped;
\* the restart stores nothing and resumes no handler, the invocation that
\* was under way is not taken up again.
C16_SupervisorRestarts ==
  /\ [][(main.pc = "except" /\ main' # main) =>
          main'.pc = "sleep" /\ main'.log = Append(main.log, main.e)]_vars
  /\ [][(main.pc = "sleep" /\ main' # main) =>
          main'.pc = "build" /\ main'.slept = main.slept + 5]_vars
  /\ [][(main.pc = "build" /\ main' # main) =>
          main'.pc = "run_polling" /\ main'.app = AllHandlers]_vars
  /\ [][main.pc # "run_polling" =>
          /\ bot_settings' = bot_settings /\ messages' = messages
          /\ pc = "idle" /\ pc' = "idle" /\ cur' = cur /\ parked' = parked]_vars
  /\ [](main.pc \in {"build", "run_polling", "except", "sleep"})
  /\ (main.pc = "except") ~> (main.pc = "run_polling" /\ main.app = AllHandlers /\ pc = "idle")

\* polling again after a crash that caught handle_message between its two
\* inserts: the crash is logged, the delay has passed, and the user turn
\* stays in the store without its assistant turn
C16_Witness ==
  /\ main.pc = "run_polling" /\ main.app = AllHandlers
  /\ main.log = <<"NetworkError">> /\ main.slept = 5
  /\ pc = "idle" /\ ~out.raised
  /\ trace = <<"load_history", "call_model", "save_user">>
  /\ \E r \in messages : r.role = "user"
  /\ \A r \in messages : r.role = "user"

\* a handle_message invocation that has read the history and has not yet
\* stored both of its turns
Unpersisted(p) == p \in {"call_model", "attempt", "retry", "save_user", "save_assistant"}

\* a handle_message invocation under way
Handling(p) == Unpersisted(p) \/ p = "reply_text"

\* two invocations for one chat, the one running while the other has not
\* yet stored both of its turns
Interleaved ==
  /\ Handling(pc) /\ Unpersisted(parked.pc)
  /\ cur.update.chat_id = parked.cur.update.chat_id

\* every assistant row was stored right after a user row of its chat
RowsPaired ==
  \A r \in messages : r.role = "assistant" =>
    \E u \in messages : /\ u.role = "user" /\ u.chat_id = r.chat_id
                        /\ u.created_at = r.created_at - 1

BothSettersDone ==
  /\ pc = "admin_reply" /\ parked.pc = "admin_reply"
  /\ cur.field # parked.cur.field

\* the row holds the value the setter wrote
HoldsEdit(c) ==
  \E r \in bot_settings : r.id = 1 /\ r[c.field] = c.value

\* of two setters of different fields that both completed, one's value is
\* not in the row
LostUpdate == BothSettersDone /\ ~(HoldsEdit(cur) /\ HoldsEdit(parked.cur))

====
